---- MODULE Spec2Model ----
(***************************************************************************)
(* Two load balancers of the repository, each a thread-per-connection      *)
(* dispatcher in front of a fixed pool of backend servers:                  *)
(*   src/load_balancer_bar.py  sampled-pair ("power of two") selection,     *)
(*                             Server.current_cost updated without a lock;  *)
(*   src/load_balancer.py      full-scan selection, Server state guarded    *)
(*                             by a per-server mutex.                       *)
(* The two programs share no state.  SpecBar runs the first, Spec the       *)
(* second.  A thread's position (pc) names the source line it is about to   *)
(* execute.                                                                 *)
(***************************************************************************)
EXTENDS Integers, Sequences, FiniteSets, TLC

VARIABLES
  \* ---- src/load_balancer_bar.py ----
  run_servers,   \* the servers argument of run: the server_type of each tuple
  self_servers,  \* LoadBalancer.servers: the type of each Server constructed
  run_pc,        \* position of run: "connect", "listen", "accept" or "failed"
  bytes_index,   \* what request[0] yields: "str" (Python 2) or "int" (Python 3)
  current_cost,  \* Server.current_cost, per server
  bconn,         \* per server: TRUE while the backend connection is up
  bto,           \* per server: requests written to the socket, not yet answered
  bfrom,         \* per server: replies in the socket's receive buffer
  bpc,           \* per handler thread: position in __handle_request
  request,       \* per thread: bytes returned by conn.recv(1024)
  request_type,  \* per thread: request[0]
  request_length,\* per thread: int(request[1])
  sampled,       \* per thread: <<server_1, server_2>> of __get_server
  cost_1,        \* per thread: server_1.server_cost(.., True) as evaluated
  cost_2,        \* per thread: server_2.server_cost(.., True) as evaluated
  server,        \* per thread: the server __get_server returned
  request_cost,  \* per thread: local request_cost of Server.request
  loaded,        \* per thread: current_cost as loaded by the += / -= in progress
  response,      \* per thread: bytes returned by socket.recv(1024) in request()
  delivered,     \* per thread: bytes passed to conn.sendall
  \* ---- src/load_balancer.py ----
  now,           \* time.time(), in whole seconds
  queued_jobs,   \* Server.__queued_jobs, per server
  t_avail,       \* Server.__t_avail, per server
  mutex,         \* Server.__mutex, per server: the thread holding it, or Free
  sconn,         \* per server: TRUE while the backend connection is up
  sto,           \* per server: requests written to the socket, not yet answered
  sfrom,         \* per server: replies in the socket's receive buffer
  pc,            \* per client thread: position in __run_client
  data,          \* per thread: bytes returned by client_sock.recv(2)
  j,             \* per thread: the Job of __send_to_servers
  s_idx,         \* per thread: index of the server the scan loop is at
  best_cost,     \* per thread: local best_cost
  best_server,   \* per thread: local best_server
  res,           \* per thread: bytes returned by socket.recv(1024) in send_and_recv
  sent           \* per thread: bytes passed to client_sock.send

runVars == <<run_servers, self_servers, run_pc>>

barVars == <<runVars, bytes_index, current_cost, bconn, bto, bfrom, bpc, request,
             request_type, request_length, sampled, cost_1, cost_2,
             server, request_cost, loaded, response, delivered>>

scanVars == <<now, queued_jobs, t_avail, mutex, sconn, sto, sfrom, pc, data,
              j, s_idx, best_cost, best_server, res, sent>>

vars == <<barVars, scanVars>>

-----------------------------------------------------------------------------
\* Bounds of the model.
MaxLen == 1           \* largest size digit a client sends
MaxTime == 2          \* the clock of load_balancer.py stops advancing here

\* The handler threads (accepted client connections) of each load balancer.
Threads == {1, 2}
Free == 0
NoServer == 0
None == <<"None">>    \* a variable for client bytes that holds none yet
NoReply == <<0>>      \* a variable for backend bytes that holds none yet
NoType == [none |-> TRUE]

-----------------------------------------------------------------------------
\* Bytes.  A payload is a sequence of one-character strings.
Digits == <<"0", "1", "2", "3", "4", "5", "6", "7", "8", "9">>

DigitChar(n) == Digits[n + 1]

IsDigit(c) == \E n \in 1..Len(Digits) : Digits[n] = c

\* Python int(c) of a one-character string; callers test IsDigit first
\* (int raises ValueError otherwise).
IntOfChar(c) == (CHOOSE n \in 1..Len(Digits) : Digits[n] = c) - 1

\* ord(c): the value bytes indexing yields under Python 3.
Ord(c) ==
  IF IsDigit(c) THEN 48 + IntOfChar(c)
  ELSE CASE c = "V" -> 86
         [] c = "M" -> 77
         [] c = "P" -> 80
         [] c = "X" -> 88
         [] OTHER -> 97

KindChars == {"V", "M", "P"}

\* What clients send: every well-formed request, and malformed ones (empty,
\* one byte only, an unknown kind tag, a size that is no digit).
Payloads ==
  {<<k, DigitChar(n)>> : k \in KindChars, n \in 1..MaxLen}
    \cup {<<>>, <<"V">>, <<"X", "1">>, <<"V", "a">>}

\* What clients of load_balancer_bar.py send: the same, and a request of
\* size 0, on which the totals of two idle servers are equal.
BarPayloads == Payloads \cup {<<"V", "0">>}

-----------------------------------------------------------------------------
\* ===================== src/load_balancer_bar.py ==========================

\* The value of request[0]: a str under Python 2, an int under Python 3.
\* The two never compare equal.
StrObj(c) == [str |-> c]
IntObj(n) == [int |-> n]

\* The pool passed to LoadBalancer.run, scaled down: VIDEO servers first,
\* MUSIC servers last.
servers == <<"V", "M">>

\* The indices of self.servers.
Servers == 1..Len(self_servers)

\* server_cost, the request-type test that raises ValueError.
InvalidRequestType(rtype) ==
  rtype \notin {StrObj("V"), StrObj("P"), StrObj("M")}

\* type_cost with the PRIORITY and VIDEO multipliers of a MUSIC server swapped.
type_cost_swapped(stype, rtype) ==
  IF stype = "V"
    THEN IF rtype \in {StrObj("V"), StrObj("P")} THEN 1 ELSE 2
    ELSE IF rtype = StrObj("M") THEN 1
         ELSE IF rtype = StrObj("P") THEN 3
         ELSE 2

\* server_cost, the multiplier chosen from the server's and the request's type.
type_cost(stype, rtype) ==
  IF stype = "V"
    THEN IF rtype \in {StrObj("V"), StrObj("P")} THEN 1 ELSE 2
    ELSE IF rtype = StrObj("M") THEN 1
         ELSE IF rtype = StrObj("P") THEN 2
         ELSE 3

\* Server.server_cost(request_type, request_length, total) on server s, for a
\* request type that does not raise.
server_cost(s, rtype, rlen, total) ==
  IF total
    THEN current_cost[s] + type_cost(self_servers[s], rtype) * rlen
    ELSE type_cost(self_servers[s], rtype) * rlen

\* A sample drawn with replacement.
SamplePairsWithReplacement == Servers \X Servers

\* random.sample(range(0, len(self.servers)), 2): the ordered pairs it can return.
SamplePairs == {p \in Servers \X Servers : p[1] # p[2]}

\* __get_server without its comparison: server_1 whatever the totals.
ChooseFirstSampled(s1, c1, s2, c2) == s1

\* The comparison of __get_server turned round.
ChooseLarger(s1, c1, s2, c2) == IF c1 > c2 THEN s1 ELSE s2

\* The comparison of __get_server: server_1 on a strictly smaller total.
Choose(s1, c1, s2, c2) == IF c1 < c2 THEN s1 ELSE s2

\* No handler thread has been started.
InitBarThreads ==
  /\ bpc = [t \in Threads |-> "accept"]
  /\ request = [t \in Threads |-> None]
  /\ request_type = [t \in Threads |-> NoType]
  /\ request_length = [t \in Threads |-> 0]
  /\ sampled = [t \in Threads |-> <<NoServer, NoServer>>]
  /\ cost_1 = [t \in Threads |-> 0]
  /\ cost_2 = [t \in Threads |-> 0]
  /\ server = [t \in Threads |-> NoServer]
  /\ request_cost = [t \in Threads |-> 0]
  /\ loaded = [t \in Threads |-> 0]
  /\ response = [t \in Threads |-> NoReply]
  /\ delivered = [t \in Threads |-> NoReply]

\* The state once run has constructed a Server for every entry of servers,
\* bound and listened: it waits in accept.
InitBarRest ==
  /\ run_servers = servers
  /\ self_servers = servers
  /\ run_pc = "accept"
  /\ current_cost = [s \in 1..Len(servers) |-> 0]
  /\ bconn = [s \in 1..Len(servers) |-> TRUE]
  /\ bto = [s \in 1..Len(servers) |-> <<>>]
  /\ bfrom = [s \in 1..Len(servers) |-> <<>>]
  /\ InitBarThreads

InitBar ==
  /\ bytes_index \in {"str", "int"}
  /\ InitBarRest

\* run and __handle_request up to the call of __get_server: a client is
\* accepted, conn.recv(1024) returns its bytes p (never None), then
\* request[0], int(request[1]).  IndexError on fewer than two bytes,
\* ValueError from int() of a str that is no digit; an exception kills the
\* thread.
BarHandleRequest(t, p) ==
  /\ run_pc = "accept"
  /\ bpc[t] = "accept"
  /\ request' = [request EXCEPT ![t] = p]
  /\ IF Len(p) < 2
       THEN /\ bpc' = [bpc EXCEPT ![t] = "failed"]
            /\ UNCHANGED <<request_type, request_length>>
       ELSE IF bytes_index = "int"
         THEN /\ request_type' = [request_type EXCEPT ![t] = IntObj(Ord(p[1]))]
              /\ request_length' = [request_length EXCEPT ![t] = Ord(p[2])]
              /\ bpc' = [bpc EXCEPT ![t] = "get_server"]
         ELSE IF IsDigit(p[2])
           THEN /\ request_type' = [request_type EXCEPT ![t] = StrObj(p[1])]
                /\ request_length' = [request_length EXCEPT ![t] = IntOfChar(p[2])]
                /\ bpc' = [bpc EXCEPT ![t] = "get_server"]
           ELSE /\ bpc' = [bpc EXCEPT ![t] = "failed"]
                /\ UNCHANGED <<request_type, request_length>>
  /\ UNCHANGED <<runVars, bytes_index, current_cost, bconn, bto, bfrom, sampled,
                 cost_1, server, request_cost, loaded, response, delivered, cost_2, scanVars>>

\* __get_server: the sample of two indices, then
\* server_1.server_cost(request_type, request_length, True), the left
\* operand of the comparison; server_cost raises ValueError on a request
\* type it does not know.
BarGetServer1(t, p) ==
  /\ bpc[t] = "get_server"
  /\ p \in SamplePairs
  /\ sampled' = [sampled EXCEPT ![t] = p]
  /\ IF InvalidRequestType(request_type[t])
       THEN /\ bpc' = [bpc EXCEPT ![t] = "failed"]
            /\ UNCHANGED cost_1
       ELSE /\ cost_1' = [cost_1 EXCEPT ![t] =
                 server_cost(p[1], request_type[t], request_length[t], TRUE)]
            /\ bpc' = [bpc EXCEPT ![t] = "cost_2"]
  /\ UNCHANGED <<runVars, bytes_index, current_cost, bconn, bto, bfrom, request,
                 request_type, request_length, server, request_cost,
                 loaded, response, delivered, cost_2, scanVars>>

\* __get_server: server_2.server_cost(.., True), the comparison and the return.
BarGetServer2(t) ==
  /\ bpc[t] = "cost_2"
  /\ LET c2 == server_cost(sampled[t][2], request_type[t], request_length[t], TRUE)
     IN /\ cost_2' = [cost_2 EXCEPT ![t] = c2]
        /\ server' = [server EXCEPT ![t] =
             Choose(sampled[t][1], cost_1[t], sampled[t][2], c2)]
  /\ bpc' = [bpc EXCEPT ![t] = "inc_load"]
  /\ UNCHANGED <<runVars, bytes_index, current_cost, bconn, bto, bfrom, request,
                 request_type, request_length, sampled, cost_1, request_cost,
                 loaded, response, delivered, scanVars>>

\* Server.request: request_cost = self.server_cost(..), then the load of
\* self.current_cost that begins "self.current_cost += request_cost".
BarIncLoad(t) ==
  /\ bpc[t] = "inc_load"
  /\ request_cost' = [request_cost EXCEPT ![t] =
       server_cost(server[t], request_type[t], request_length[t], FALSE)]
  /\ loaded' = [loaded EXCEPT ![t] = current_cost[server[t]]]
  /\ bpc' = [bpc EXCEPT ![t] = "inc_store"]
  /\ UNCHANGED <<runVars, bytes_index, current_cost, bconn, bto, bfrom, request,
                 request_type, request_length, sampled, cost_1, server,
                 response, delivered, cost_2, scanVars>>

\* Server.request: the store that ends "self.current_cost += request_cost".
BarIncStore(t) ==
  /\ bpc[t] = "inc_store"
  /\ current_cost' = [current_cost EXCEPT ![server[t]] = loaded[t] + request_cost[t]]
  /\ bpc' = [bpc EXCEPT ![t] = "send"]
  /\ UNCHANGED <<runVars, bytes_index, bconn, bto, bfrom, request, request_type,
                 request_length, sampled, cost_1, server, request_cost,
                 loaded, response, delivered, cost_2, scanVars>>

\* __handle_request retrying a failed send on the next server of the pool.
BarSendRetries(t) ==
  /\ bpc[t] = "send"
  /\ IF bconn[server[t]]
       THEN /\ bto' = [bto EXCEPT ![server[t]] = Append(@, t)]
            /\ bpc' = [bpc EXCEPT ![t] = "recv"]
            /\ UNCHANGED server
       ELSE /\ server' = [server EXCEPT ![t] = (@ % Len(self_servers)) + 1]
            /\ bpc' = [bpc EXCEPT ![t] = "inc_load"]
            /\ UNCHANGED bto
  /\ UNCHANGED <<runVars, bytes_index, current_cost, bconn, bfrom, request,
                 request_type, request_length, sampled, cost_1, request_cost,
                 loaded, response, delivered, cost_2, scanVars>>

\* Server.request: self.socket.send(..).  It raises on a connection that is
\* down, and the exception leaves request() and kills the thread.
BarSend(t) ==
  /\ bpc[t] = "send"
  /\ IF bconn[server[t]]
       THEN /\ bto' = [bto EXCEPT ![server[t]] = Append(@, t)]
            /\ bpc' = [bpc EXCEPT ![t] = "recv"]
       ELSE /\ bpc' = [bpc EXCEPT ![t] = "failed_reserved"]
            /\ UNCHANGED bto
  /\ UNCHANGED <<runVars, bytes_index, current_cost, bconn, bfrom, request,
                 request_type, request_length, sampled, cost_1, server,
                 request_cost, loaded, response, delivered, cost_2, scanVars>>

\* Server.request: response = self.socket.recv(1024) returns what the
\* receive buffer holds, whichever request the bytes answer; on a closed
\* connection with nothing buffered it returns the empty bytes.
BarRecv(t) ==
  /\ bpc[t] = "recv"
  /\ \/ bfrom[server[t]] # <<>>
     \/ ~bconn[server[t]]
  /\ response' = [response EXCEPT ![t] = bfrom[server[t]]]
  /\ bfrom' = [bfrom EXCEPT ![server[t]] = <<>>]
  /\ bpc' = [bpc EXCEPT ![t] = "dec_load"]
  /\ UNCHANGED <<runVars, bytes_index, current_cost, bconn, bto, request,
                 request_type, request_length, sampled, cost_1, server,
                 request_cost, loaded, delivered, cost_2, scanVars>>

\* Server.request: self.socket.recv(1024) raises (connection reset by the
\* backend); the exception leaves request() and kills the thread.
BarRecvRaises(t) ==
  /\ bpc[t] = "recv"
  /\ ~bconn[server[t]]
  /\ bfrom[server[t]] = <<>>
  /\ bpc' = [bpc EXCEPT ![t] = "failed_reserved"]
  /\ UNCHANGED <<runVars, bytes_index, current_cost, bconn, bto, bfrom, request,
                 request_type, request_length, sampled, cost_1, server,
                 request_cost, loaded, response, delivered, cost_2, scanVars>>

\* Server.request: the load that begins "self.current_cost -= request_cost".
BarDecLoad(t) ==
  /\ bpc[t] = "dec_load"
  /\ loaded' = [loaded EXCEPT ![t] = current_cost[server[t]]]
  /\ bpc' = [bpc EXCEPT ![t] = "dec_store"]
  /\ UNCHANGED <<runVars, bytes_index, current_cost, bconn, bto, bfrom, request,
                 request_type, request_length, sampled, cost_1, server,
                 request_cost, response, delivered, cost_2, scanVars>>

\* Server.request: the store that ends "self.current_cost -= request_cost"
\* and the return; __handle_request: conn.sendall(<the response>),
\* conn.close().
BarDecStore(t) ==
  /\ bpc[t] = "dec_store"
  /\ current_cost' = [current_cost EXCEPT ![server[t]] = loaded[t] - request_cost[t]]
  /\ delivered' = [delivered EXCEPT ![t] = response[t]]
  /\ bpc' = [bpc EXCEPT ![t] = "done"]
  /\ UNCHANGED <<runVars, bytes_index, bconn, bto, bfrom, request, request_type,
                 request_length, sampled, cost_1, server, request_cost,
                 loaded, response, cost_2, scanVars>>

\* The backend behind self.socket answers the oldest request it was sent; a
\* reply is named by the thread whose request it answers.
BarBackendReply(s) ==
  /\ bconn[s]
  /\ bto[s] # <<>>
  /\ bfrom' = [bfrom EXCEPT ![s] = Append(@, Head(bto[s]))]
  /\ bto' = [bto EXCEPT ![s] = Tail(@)]
  /\ UNCHANGED <<runVars, bytes_index, current_cost, bconn, bpc, request,
                 request_type, request_length, sampled, cost_1, server,
                 request_cost, loaded, response, delivered, cost_2, scanVars>>

\* The backend behind self.socket disconnects; requests it has not answered
\* are lost.
BarBackendDisconnect(s) ==
  /\ bconn[s]
  /\ bconn' = [bconn EXCEPT ![s] = FALSE]
  /\ bto' = [bto EXCEPT ![s] = <<>>]
  /\ UNCHANGED <<runVars, bytes_index, current_cost, bfrom, bpc, request,
                 request_type, request_length, sampled, cost_1, server,
                 request_cost, loaded, response, delivered, cost_2, scanVars>>

\* The steps of a handler thread that has its request.
BarRunning(t) ==
  \/ \E p \in SamplePairs : BarGetServer1(t, p)
  \/ BarGetServer2(t)
  \/ BarIncLoad(t)
  \/ BarIncStore(t)
  \/ BarSend(t)
  \/ BarRecv(t)
  \/ BarRecvRaises(t)
  \/ BarDecLoad(t)
  \/ BarDecStore(t)

BarThread(t) ==
  \/ \E p \in BarPayloads : BarHandleRequest(t, p)
  \/ BarRunning(t)

NextBar ==
  \/ \E t \in Threads : BarThread(t)
  \/ \E s \in Servers : BarBackendReply(s)
  \/ \E s \in Servers : BarBackendDisconnect(s)

\* ---- startup: LoadBalancer.run(servers) from its first line ----

\* Server.__init__, the server types it accepts.
ServerTypes == {"V", "M"}

\* Lists a caller can pass to run: empty, of one server, of two, with a
\* server type "X" that Server.__init__ rejects.
RunConfigs == {<<>>, <<"V">>, <<"X">>, <<"V", "M">>, <<"M", "V">>, <<"V", "X">>}

\* run, one iteration of "for server_host, server_port, server_type in
\* servers": Server.__init__ raises ValueError on a type other than V and
\* M, socket.connect raises when the backend is not reachable (up = FALSE),
\* and either exception ends run; otherwise the Server goes into
\* self.servers with current_cost = 0.
RunConnect(up) ==
  /\ run_pc = "connect"
  /\ Len(self_servers) < Len(run_servers)
  /\ LET server_type == run_servers[Len(self_servers) + 1]
     IN IF server_type \notin ServerTypes \/ ~up
          THEN /\ run_pc' = "failed"
               /\ UNCHANGED <<self_servers, current_cost, bconn, bto, bfrom>>
          ELSE /\ self_servers' = Append(self_servers, server_type)
               /\ current_cost' = Append(current_cost, 0)
               /\ bconn' = Append(bconn, TRUE)
               /\ bto' = Append(bto, <<>>)
               /\ bfrom' = Append(bfrom, <<>>)
               /\ UNCHANGED run_pc
  /\ UNCHANGED <<run_servers, bytes_index, bpc, request, request_type,
                 request_length, sampled, cost_1, cost_2, server,
                 request_cost, loaded, response, delivered, scanVars>>

\* run, after the loop: self.socket.bind, self.socket.listen(40); the accept
\* loop follows.  Nothing looks at len(self.servers).
RunListen ==
  /\ run_pc = "connect"
  /\ Len(self_servers) = Len(run_servers)
  /\ run_pc' = "accept"
  /\ UNCHANGED <<run_servers, self_servers, bytes_index, current_cost, bconn,
                 bto, bfrom, bpc, request, request_type, request_length,
                 sampled, cost_1, cost_2, server, request_cost, loaded,
                 response, delivered, scanVars>>

\* __get_server: sample(range(0, len(self.servers)), 2) raises ValueError
\* when self.servers holds fewer than two servers; the exception kills the
\* handler thread.
BarSampleRaises(t) ==
  /\ bpc[t] = "get_server"
  /\ Len(self_servers) < 2
  /\ bpc' = [bpc EXCEPT ![t] = "failed"]
  /\ UNCHANGED <<runVars, bytes_index, current_cost, bconn, bto, bfrom,
                 request, request_type, request_length, sampled, cost_1,
                 cost_2, server, request_cost, loaded, response, delivered,
                 scanVars>>

InitRun ==
  /\ run_servers \in RunConfigs
  /\ self_servers = <<>>
  /\ run_pc = "connect"
  /\ bytes_index \in {"str", "int"}
  /\ current_cost = <<>>
  /\ bconn = <<>>
  /\ bto = <<>>
  /\ bfrom = <<>>
  /\ InitBarThreads

NextRun ==
  \/ \E up \in BOOLEAN : RunConnect(up)
  \/ RunListen
  \/ \E t \in Threads : BarSampleRaises(t)
  \/ NextBar

-----------------------------------------------------------------------------
\* ======================= src/load_balancer.py ============================

\* LoadBalancer.__init__: s1, s2, s3 and their kinds.
kinds == <<"V", "V", "M">>

Pool == 1..Len(kinds)

\* best_cost = 2 ** 31.  TLC's integers end at 2 ** 31 - 1, which stands for
\* it: a cost is below the one exactly when it is below the other, for every
\* cost TLC can hold but 2 ** 31 - 1 itself.
Sentinel == 2147483647

\* a + b of two Python numbers.  Python's numbers have no upper end; a sum
\* above 2 ** 31 - 1 is held as 2 ** 31 - 1, which the comparison with
\* best_cost treats as 2 ** 31 and more.
Plus(a, b) == IF b > 0 /\ a > Sentinel - b THEN Sentinel ELSE a + b

\* Job(chr(msg[0]), int(chr(msg[1]))) of a two-byte message whose second
\* byte is a digit.
Job(msg) == [kind |-> msg[1], cost |-> IntOfChar(msg[2])]

NoJob == [kind |-> "", cost |-> 0]

\* Server.__get_tbusy
get_tbusy(s) == IF queued_jobs[s] = 0 THEN 0 ELSE t_avail[s] - now

\* Server.__get_job_cost
get_job_cost(kind, job) ==
  IF kind = "V"
    THEN IF job.kind = "V" \/ job.kind = "P" THEN job.cost ELSE job.cost * 2
    ELSE IF job.kind = "M" THEN job.cost
         ELSE IF job.kind = "P" THEN job.cost * 2
         ELSE job.cost * 3

\* Server.get_cost, the value computed between acquire and release.
get_cost(s, job) == Plus(get_tbusy(s), get_job_cost(kinds[s], job))

\* The loop body with <= for <: a later server replaces an equal earlier one.
ScanStepLastWins(best, s, job) ==
  LET curr == get_cost(s, job)
  IN IF curr <= best[1] THEN <<curr, s>> ELSE best

\* __send_to_servers, the loop body: curr = s.get_cost(j), and the pair
\* (best_cost, best_server) after the comparison curr < best_cost.
ScanStep(best, s, job) ==
  LET curr == get_cost(s, job)
  IN IF curr < best[1] THEN <<curr, s>> ELSE best

\* __send_to_servers, the loop from server i on, run on the present state of
\* the servers.
RECURSIVE ScanFrom(_, _, _)
ScanFrom(i, best, job) ==
  IF i > Len(kinds) THEN best ELSE ScanFrom(i + 1, ScanStep(best, i, job), job)

\* __send_to_servers: best_cost and best_server after the whole loop.
FullScan(job) == ScanFrom(1, <<Sentinel, NoServer>>, job)

InitScan ==
  /\ now = 0
  /\ queued_jobs = [s \in Pool |-> 0]
  /\ t_avail = [s \in Pool |-> 0]
  /\ mutex = [s \in Pool |-> Free]
  /\ sconn = [s \in Pool |-> TRUE]
  /\ sto = [s \in Pool |-> <<>>]
  /\ sfrom = [s \in Pool |-> <<>>]
  /\ pc = [t \in Threads |-> "accept"]
  /\ data = [t \in Threads |-> None]
  /\ j = [t \in Threads |-> NoJob]
  /\ s_idx = [t \in Threads |-> 0]
  /\ best_cost = [t \in Threads |-> 0]
  /\ best_server = [t \in Threads |-> NoServer]
  /\ res = [t \in Threads |-> NoReply]
  /\ sent = [t \in Threads |-> NoReply]

\* time.time() advances.  The clock is read by __get_tbusy on a server with
\* queued jobs and by the locked regions of send_and_recv, which restart
\* t_avail from it on an idle server: only differences t_avail - now taken
\* while a job is queued are ever used.  Time that passes while every server
\* is idle cannot be observed, and the model lets none pass then.
Tick ==
  /\ now < MaxTime
  /\ \E s \in Pool : queued_jobs[s] > 0
  /\ now' = now + 1
  /\ UNCHANGED <<barVars, queued_jobs, t_avail, mutex, sconn, sto, sfrom, pc,
                 data, j, s_idx, best_cost, best_server, res, sent>>

\* run, __run_client and the head of __send_to_servers: a client is
\* accepted, client_sock.recv(2) returns d, assert(data), the Job is built
\* (IndexError on a single byte, ValueError from int() of a byte that is no
\* digit), best_server = None, best_cost = 2 ** 31.  An exception kills the
\* thread.
RunClient(t, d) ==
  /\ pc[t] = "accept"
  /\ Len(d) <= 2
  /\ data' = [data EXCEPT ![t] = d]
  /\ IF Len(d) = 2 /\ IsDigit(d[2])
       THEN /\ j' = [j EXCEPT ![t] = Job(d)]
            /\ best_cost' = [best_cost EXCEPT ![t] = Sentinel]
            /\ best_server' = [best_server EXCEPT ![t] = NoServer]
            /\ s_idx' = [s_idx EXCEPT ![t] = 1]
            /\ pc' = [pc EXCEPT ![t] = "get_cost"]
       ELSE /\ pc' = [pc EXCEPT ![t] = "failed"]
            /\ UNCHANGED <<j, best_cost, best_server, s_idx>>
  /\ UNCHANGED <<barVars, now, queued_jobs, t_avail, mutex, sconn, sto, sfrom,
                 res, sent>>

\* get_cost: self.__mutex.acquire(), on the server the loop is at.
GetCostAcquire(t) ==
  /\ pc[t] = "get_cost"
  /\ mutex[s_idx[t]] = Free
  /\ mutex' = [mutex EXCEPT ![s_idx[t]] = t]
  /\ pc' = [pc EXCEPT ![t] = "get_cost_locked"]
  /\ UNCHANGED <<barVars, now, queued_jobs, t_avail, sconn, sto, sfrom, data,
                 j, s_idx, best_cost, best_server, res, sent>>

\* get_cost returning without self.__mutex.release().
GetCostReturnsLocked(t) ==
  /\ pc[t] = "get_cost_locked"
  /\ LET best == ScanStep(<<best_cost[t], best_server[t]>>, s_idx[t], j[t])
     IN /\ best_cost' = [best_cost EXCEPT ![t] = best[1]]
        /\ best_server' = [best_server EXCEPT ![t] = best[2]]
        /\ IF s_idx[t] < Len(kinds)
             THEN /\ s_idx' = [s_idx EXCEPT ![t] = @ + 1]
                  /\ pc' = [pc EXCEPT ![t] = "get_cost"]
             ELSE /\ UNCHANGED s_idx
                  /\ pc' = [pc EXCEPT ![t] =
                       IF best[2] = NoServer THEN "failed" ELSE "log"]
  /\ UNCHANGED <<barVars, now, queued_jobs, t_avail, mutex, sconn, sto, sfrom,
                 data, j, res, sent>>

\* get_cost: the sum, self.__mutex.release(), return; then the loop body of
\* __send_to_servers (curr < best_cost) and, after the last server,
\* assert(best_server != None).
GetCostRelease(t) ==
  /\ pc[t] = "get_cost_locked"
  /\ LET s == s_idx[t]
         best == ScanStep(<<best_cost[t], best_server[t]>>, s, j[t])
     IN /\ mutex' = [mutex EXCEPT ![s] = Free]
        /\ best_cost' = [best_cost EXCEPT ![t] = best[1]]
        /\ best_server' = [best_server EXCEPT ![t] = best[2]]
        /\ IF s < Len(kinds)
             THEN /\ s_idx' = [s_idx EXCEPT ![t] = s + 1]
                  /\ pc' = [pc EXCEPT ![t] = "get_cost"]
             ELSE /\ UNCHANGED s_idx
                  /\ pc' = [pc EXCEPT ![t] =
                       IF best[2] = NoServer THEN "failed" ELSE "log"]
  /\ UNCHANGED <<barVars, now, queued_jobs, t_avail, sconn, sto, sfrom, data,
                 j, res, sent>>

\* __send_to_servers: the print before the call of send_and_recv.  Its
\* f-string evaluates msg.encode('ASCII') on the bytes object recv returned,
\* and bytes has no encode: AttributeError, which kills the thread.  The
\* second disjunct follows the call the line leads to, so that
\* send_and_recv is checked as written behind it.
Log(t) ==
  /\ pc[t] = "log"
  /\ \/ pc' = [pc EXCEPT ![t] = "failed"]
     \/ pc' = [pc EXCEPT ![t] = "reserve"]
  /\ UNCHANGED <<barVars, now, queued_jobs, t_avail, mutex, sconn, sto, sfrom,
                 data, j, s_idx, best_cost, best_server, res, sent>>

\* send_and_recv(msg, best_cost) on best_server: the first
\* self.__mutex.acquire().
ReserveAcquire(t) ==
  /\ pc[t] = "reserve"
  /\ mutex[best_server[t]] = Free
  /\ mutex' = [mutex EXCEPT ![best_server[t]] = t]
  /\ pc' = [pc EXCEPT ![t] = "reserve_locked"]
  /\ UNCHANGED <<barVars, now, queued_jobs, t_avail, sconn, sto, sfrom, data,
                 j, s_idx, best_cost, best_server, res, sent>>

\* send_and_recv keeping the mutex of the first locked region while it sends
\* and receives.
ReserveHoldsAcrossSend(t) ==
  /\ pc[t] = "reserve_locked"
  /\ queued_jobs' = [queued_jobs EXCEPT ![best_server[t]] = @ + 1]
  /\ t_avail' = [t_avail EXCEPT ![best_server[t]] =
       Plus(IF queued_jobs[best_server[t]] = 0 THEN now ELSE @, best_cost[t])]
  /\ pc' = [pc EXCEPT ![t] = "send"]
  /\ UNCHANGED <<barVars, now, mutex, sconn, sto, sfrom, data, j, s_idx,
                 best_cost, best_server, res, sent>>

\* send_and_recv: the first locked region and its release; cost is the
\* best_cost the caller passed.
Reserve(t) ==
  /\ pc[t] = "reserve_locked"
  /\ LET s == best_server[t]
         start == IF queued_jobs[s] = 0 THEN now ELSE t_avail[s]
     IN /\ queued_jobs' = [queued_jobs EXCEPT ![s] = @ + 1]
        /\ t_avail' = [t_avail EXCEPT ![s] = Plus(start, best_cost[t])]
        /\ mutex' = [mutex EXCEPT ![s] = Free]
  /\ pc' = [pc EXCEPT ![t] = "send"]
  /\ UNCHANGED <<barVars, now, sconn, sto, sfrom, data, j, s_idx, best_cost,
                 best_server, res, sent>>

\* send_and_recv: self.__socket.send(msg).  It raises on a connection that
\* is down, and the exception leaves send_and_recv and kills the thread.
Send(t) ==
  /\ pc[t] = "send"
  /\ IF sconn[best_server[t]]
       THEN /\ sto' = [sto EXCEPT ![best_server[t]] = Append(@, t)]
            /\ pc' = [pc EXCEPT ![t] = "recv"]
       ELSE /\ pc' = [pc EXCEPT ![t] = "failed_reserved"]
            /\ UNCHANGED sto
  /\ UNCHANGED <<barVars, now, queued_jobs, t_avail, mutex, sconn, sfrom,
                 data, j, s_idx, best_cost, best_server, res, sent>>

\* send_and_recv: res = self.__socket.recv(1024) returns what the receive
\* buffer holds, whichever request the bytes answer, or the empty bytes on a
\* closed connection with nothing buffered; assert(res) then raises.
Recv(t) ==
  /\ pc[t] = "recv"
  /\ \/ sfrom[best_server[t]] # <<>>
     \/ ~sconn[best_server[t]]
  /\ res' = [res EXCEPT ![t] = sfrom[best_server[t]]]
  /\ sfrom' = [sfrom EXCEPT ![best_server[t]] = <<>>]
  /\ pc' = [pc EXCEPT ![t] =
       IF sfrom[best_server[t]] = <<>> THEN "failed_reserved" ELSE "release"]
  /\ UNCHANGED <<barVars, now, queued_jobs, t_avail, mutex, sconn, sto, data,
                 j, s_idx, best_cost, best_server, sent>>

\* send_and_recv: self.__socket.recv(1024) raises (connection reset by the
\* backend); the exception leaves send_and_recv and kills the thread.
RecvRaises(t) ==
  /\ pc[t] = "recv"
  /\ ~sconn[best_server[t]]
  /\ sfrom[best_server[t]] = <<>>
  /\ pc' = [pc EXCEPT ![t] = "failed_reserved"]
  /\ UNCHANGED <<barVars, now, queued_jobs, t_avail, mutex, sconn, sto, sfrom,
                 data, j, s_idx, best_cost, best_server, res, sent>>

\* send_and_recv: the second self.__mutex.acquire().
ReleaseAcquire(t) ==
  /\ pc[t] = "release"
  /\ mutex[best_server[t]] = Free
  /\ mutex' = [mutex EXCEPT ![best_server[t]] = t]
  /\ pc' = [pc EXCEPT ![t] = "release_locked"]
  /\ UNCHANGED <<barVars, now, queued_jobs, t_avail, sconn, sto, sfrom, data,
                 j, s_idx, best_cost, best_server, res, sent>>

\* send_and_recv, the second locked region without the reset of t_avail.
ReleaseNoReset(t) ==
  /\ pc[t] = "release_locked"
  /\ queued_jobs' = [queued_jobs EXCEPT ![best_server[t]] = @ - 1]
  /\ mutex' = [mutex EXCEPT ![best_server[t]] = Free]
  /\ sent' = [sent EXCEPT ![t] = res[t]]
  /\ pc' = [pc EXCEPT ![t] = "done"]
  /\ UNCHANGED <<barVars, now, t_avail, sconn, sto, sfrom, data, j, s_idx,
                 best_cost, best_server, res>>

\* send_and_recv: the second locked region, its release and the return;
\* __run_client: client_sock.send(res), client_sock.close().
Release(t) ==
  /\ pc[t] = "release_locked"
  /\ LET s == best_server[t]
     IN /\ queued_jobs' = [queued_jobs EXCEPT ![s] = @ - 1]
        /\ t_avail' = [t_avail EXCEPT ![s] =
             IF queued_jobs[s] - 1 = 0 THEN now ELSE @]
        /\ mutex' = [mutex EXCEPT ![s] = Free]
  /\ sent' = [sent EXCEPT ![t] = res[t]]
  /\ pc' = [pc EXCEPT ![t] = "done"]
  /\ UNCHANGED <<barVars, now, sconn, sto, sfrom, data, j, s_idx, best_cost,
                 best_server, res>>

\* The backend behind a Server's socket answers the oldest request it was
\* sent; a reply is named by the thread whose request it answers.
BackendReply(s) ==
  /\ sconn[s]
  /\ sto[s] # <<>>
  /\ sfrom' = [sfrom EXCEPT ![s] = Append(@, Head(sto[s]))]
  /\ sto' = [sto EXCEPT ![s] = Tail(@)]
  /\ UNCHANGED <<barVars, now, queued_jobs, t_avail, mutex, sconn, pc, data,
                 j, s_idx, best_cost, best_server, res, sent>>

\* The backend behind a Server's socket disconnects; requests it has not
\* answered are lost.
BackendDisconnect(s) ==
  /\ sconn[s]
  /\ sconn' = [sconn EXCEPT ![s] = FALSE]
  /\ sto' = [sto EXCEPT ![s] = <<>>]
  /\ UNCHANGED <<barVars, now, queued_jobs, t_avail, mutex, sfrom, pc, data,
                 j, s_idx, best_cost, best_server, res, sent>>

\* The steps of a client thread that has its request.
ScanRunning(t) ==
  \/ GetCostAcquire(t)
  \/ GetCostRelease(t)
  \/ Log(t)
  \/ ReserveAcquire(t)
  \/ Reserve(t)
  \/ Send(t)
  \/ Recv(t)
  \/ RecvRaises(t)
  \/ ReleaseAcquire(t)
  \/ Release(t)

ScanThread(t) ==
  \/ \E d \in Payloads : RunClient(t, d)
  \/ ScanRunning(t)

NextScan ==
  \/ Tick
  \/ \E t \in Threads : ScanThread(t)
  \/ \E s \in Pool : BackendReply(s)
  \/ \E s \in Pool : BackendDisconnect(s)

\* ---- many requests in flight ----

\* run starts a thread for every client it accepts, with no upper number.
\* A thread that waits in recv for a backend that does not answer takes no
\* step and its locals are read by no one: the model stops following it and
\* follows, in its place, the thread of the next client accepted.  The
\* reservation of the thread left behind stays on its server.
Spawn(t) ==
  /\ pc[t] = "recv"
  /\ sconn[best_server[t]]
  /\ sfrom[best_server[t]] = <<>>
  /\ pc' = [pc EXCEPT ![t] = "accept"]
  /\ data' = [data EXCEPT ![t] = None]
  /\ j' = [j EXCEPT ![t] = NoJob]
  /\ s_idx' = [s_idx EXCEPT ![t] = 0]
  /\ best_cost' = [best_cost EXCEPT ![t] = 0]
  /\ best_server' = [best_server EXCEPT ![t] = NoServer]
  /\ UNCHANGED <<barVars, now, queued_jobs, t_avail, mutex, sconn, sto, sfrom,
                 res, sent>>

\* The request every client of the flood sends.
FloodPayload == <<"V", DigitChar(MaxLen)>>

\* Clients connect one after the other within one second, each after the
\* thread of the one before it has sent its request, while no backend
\* answers: one thread at a time is between accept and recv.
NextFlood ==
  \/ RunClient(1, FloodPayload)
  \/ GetCostAcquire(1)
  \/ GetCostRelease(1)
  \/ Log(1)
  \/ ReserveAcquire(1)
  \/ Reserve(1)
  \/ Send(1)
  \/ Spawn(1)

-----------------------------------------------------------------------------
\* load_balancer_bar.py runs, under either Python; load_balancer.py has not
\* started.
InitBarRun == InitBar /\ InitScan

SpecBar == InitBarRun /\ [][NextBar]_vars

\* load_balancer.py runs; load_balancer_bar.py has not started.
Init == bytes_index = "str" /\ InitBarRest /\ InitScan

\* load_balancer_bar.py from the call of run, on any of the lists RunConfigs.
InitRunAll == InitRun /\ InitScan

SpecRun == InitRunAll /\ [][NextRun]_vars

Next == NextScan

Spec == Init /\ [][Next]_vars

\* load_balancer.py under a flood of clients whose backends do not answer.
SpecFlood == Init /\ [][NextFlood]_vars

\* load_balancer.py with its client threads scheduled fairly: a thread that
\* has its request and can take a step eventually takes one.  Nothing
\* obliges a client to connect or a backend to answer.
FairSpec == Spec /\ \A t \in Threads : WF_vars(ScanRunning(t))

\* load_balancer_bar.py with its handler threads scheduled fairly: a thread
\* that has its request and can take a step eventually takes one.  Nothing
\* obliges a client to connect or a backend to answer.
FairSpecBar == SpecBar /\ \A t \in Threads : WF_vars(BarRunning(t))

-----------------------------------------------------------------------------
\* ============================== Claims ===================================

\* Positions of a load_balancer_bar.py thread whose increment of
\* current_cost has been stored and whose decrement has not.
BarReservedAt == {"send", "recv", "dec_load", "dec_store", "failed_reserved"}

\* Positions of a load_balancer.py thread that has left the first locked
\* region of send_and_recv and not yet left the second.
ReservedAt == {"send", "recv", "release", "release_locked", "failed_reserved"}

BarHolding(s) == {t \in Threads : server[t] = s /\ bpc[t] \in BarReservedAt}

RECURSIVE SumRequestCost(_)
SumRequestCost(T) ==
  IF T = {} THEN 0
  ELSE LET t == CHOOSE x \in T : TRUE
       IN request_cost[t] + SumRequestCost(T \ {t})

\* C1: in load_balancer_bar.py every server's current_cost equals the sum of
\* the costs of the requests that have executed the increment of request()
\* and not yet the decrement.
C1_CostIsSumOfReserved ==
  \A s \in Servers : current_cost[s] = SumRequestCost(BarHolding(s))

\* C2: when a forward fails after the reservation (send raises, recv raises
\* or returns nothing), the backend's outstanding load is back at its value
\* before the request once the call has ended.  Stated for a request that
\* runs alone, so that the value before it is the initial 0.
C2_FailedForwardReleases ==
  /\ \A t \in Threads :
       (bpc[t] = "failed_reserved" /\ \A u \in Threads \ {t} : bpc[u] = "accept")
         => current_cost[server[t]] = 0
  /\ \A t \in Threads :
       (pc[t] = "failed_reserved" /\ \A u \in Threads \ {t} : pc[u] = "accept")
         => queued_jobs[best_server[t]] = 0

\* C3: every request reserved on a backend eventually has its reservation
\* released and its client answered, even when the backend never answers.
C3_ReservedEventuallyReleased ==
  /\ \A t \in Threads : (bpc[t] \in {"send", "recv"}) ~> (bpc[t] = "done")
  /\ \A t \in Threads : (pc[t] \in {"send", "recv"}) ~> (pc[t] = "done")

\* C4: the outstanding-load counter of every backend is never negative:
\* current_cost in load_balancer_bar.py, queued_jobs in load_balancer.py.
C4_LoadNonNegative ==
  /\ \A s \in Servers : current_cost[s] >= 0
  /\ \A s \in Pool : queued_jobs[s] >= 0

\* C5: on the present state of the servers, the full scan of a thread's job
\* returns a server whose get_cost is the minimum over the pool, with that
\* cost, and among the servers at the minimum the first in pool order.
C5_FullScanPicksFirstMinimum ==
  \A t \in Threads :
    j[t] # NoJob =>
      \A best \in {FullScan(j[t])} :
        /\ best[2] \in Pool
        /\ best[1] = get_cost(best[2], j[t])
        /\ \A s \in Pool : best[1] <= get_cost(s, j[t])
        /\ \A s \in Pool : get_cost(s, j[t]) = best[1] => best[2] <= s

\* A thread has finished its scan on servers that still stand as it read
\* them: two servers tie at the minimum, a third is busy, the first is chosen.
C5_Witness ==
  \E t \in Threads :
    /\ pc[t] = "log"
    /\ <<best_cost[t], best_server[t]>> = FullScan(j[t])
    /\ best_server[t] = 1
    /\ get_cost(2, j[t]) = best_cost[t]
    /\ \E s \in Pool : queued_jobs[s] > 0 /\ get_tbusy(s) # 0

\* Every size int() can return for one digit.
AllSizes == 0..9

\* The multiplier table of the claim.
Multiplier(T, K) ==
  CASE T = "V" /\ K \in {"V", "P"} -> 1
    [] T = "V" /\ K = "M" -> 2
    [] T = "M" /\ K = "M" -> 1
    [] T = "M" /\ K = "P" -> 2
    [] T = "M" /\ K = "V" -> 3

\* C6: for every backend type, job kind in V, M, P and size, __get_job_cost
\* and server_cost with total=False both return multiplier x size, with the
\* multipliers of the table (neither reads the state of a server: they are
\* evaluated before the first request); and the request_cost a thread of
\* load_balancer_bar.py reserves is that product for its own request.
C6_CostIsMultiplierTimesSize ==
  /\ (\A t \in Threads : bpc[t] = "accept") =>
       /\ \A s \in Servers, K \in KindChars, S \in AllSizes :
            /\ ~InvalidRequestType(StrObj(K))
            /\ server_cost(s, StrObj(K), S, FALSE) = Multiplier(self_servers[s], K) * S
       /\ \A T \in {"V", "M"}, K \in KindChars, S \in AllSizes :
            get_job_cost(T, [kind |-> K, cost |-> S]) = Multiplier(T, K) * S
  /\ \A t \in Threads :
       bpc[t] \in {"inc_store"} \cup BarReservedAt \cup {"done"}
         => request_cost[t] =
              Multiplier(self_servers[server[t]], request[t][1]) * IntOfChar(request[t][2])

\* A MUSIC request is reserved on a VIDEO server at twice its length.
C6_Witness ==
  \E t \in Threads :
    /\ bpc[t] = "send"
    /\ request[t][1] = "M"
    /\ self_servers[server[t]] = "V"
    /\ request_cost[t] = 2

\* A payload that decodes to a Job: a known kind tag and a digit.
WellFormed(d) == Len(d) = 2 /\ d[1] \in KindChars /\ IsDigit(d[2])

C8_ClientGetsOwnReply ==
  /\ \A t \in Threads : delivered[t] \notin {NoReply, <<>>} => delivered[t] = <<t>>
  /\ \A t \in Threads : sent[t] # NoReply => sent[t] = <<t>>

\* C9: the two servers __get_server samples are distinct members of the pool.
C9_SampledDistinct ==
  \A t \in Threads :
    sampled[t] # <<NoServer, NoServer>>
      => /\ sampled[t][1] \in Servers
         /\ sampled[t][2] \in Servers
         /\ sampled[t][1] # sampled[t][2]

\* A thread has drawn the second server of the pool first.
C9_Witness ==
  \E t \in Threads : bpc[t] = "cost_2" /\ sampled[t] = <<2, 1>>

\* Positions of a load_balancer_bar.py thread for which __get_server has
\* returned.
BarSelectedAt == {"inc_load", "inc_store"} \cup BarReservedAt \cup {"done"}

\* C10: __get_server returns one of the two sampled servers; the total
\* (current_cost + cost of the request) it evaluated for the one it returns
\* is at most the total it evaluated for the other; on equal totals it
\* returns the second sampled.
C10_ReturnsCheaperOfTwo ==
  \A t \in Threads :
    bpc[t] \in BarSelectedAt
      => /\ server[t] \in {sampled[t][1], sampled[t][2]}
         /\ server[t] = sampled[t][1] => cost_1[t] <= cost_2[t]
         /\ server[t] = sampled[t][2] => cost_2[t] <= cost_1[t]
         /\ cost_1[t] = cost_2[t] => server[t] = sampled[t][2]

\* __get_server has returned from two equal totals, one of them on a server
\* that carries another request.
C10_Witness ==
  \E t \in Threads :
    /\ bpc[t] = "inc_load"
    /\ cost_1[t] = cost_2[t]
    /\ server[t] = sampled[t][2]
    /\ \E s \in Servers : current_cost[s] > 0

\* The servers argument of run is a configuration error: empty, or with a
\* server type other than V and M.
ConfigurationError(cfg) ==
  cfg = <<>> \/ \E i \in 1..Len(cfg) : cfg[i] \notin ServerTypes

\* C11: when the list passed to run is a configuration error, run fails
\* before it accepts a client: no handler thread ever starts, so none runs
\* __get_server on an empty pool.
C11_ConfigErrorFatalAtStartup ==
  ConfigurationError(run_servers) => \A t \in Threads : bpc[t] = "accept"

\* The job kinds the claim is about, and sizes from 0 up to the 10 of its
\* example.
VideoOrPriority == {"V", "P"}

SizesFromZero == 0..10

SizesFromOne == 1..10

\* Pool <<"V", "M">> of load_balancer_bar.py: A is server 1, B server 2.
\* For every size in Sizes: a thread that read both servers idle was given
\* A; and while no request is in progress, server_cost gives the costs of
\* the claim and __get_server returns A for either order of the sample.  On
\* the idle pool of load_balancer.py (VIDEO, VIDEO, MUSIC) the full scan
\* returns a VIDEO server.
VideoAndPriorityGoToVideo(Sizes) ==
  /\ self_servers = <<"V", "M">>
  /\ (\A t \in Threads : bpc[t] = "accept") =>
       \A K \in VideoOrPriority, S \in Sizes, p \in SamplePairs :
         /\ \A s \in Servers : current_cost[s] = 0
         /\ server_cost(1, StrObj(K), S, TRUE) = S
         /\ server_cost(2, StrObj(K), S, TRUE) = (IF K = "V" THEN 3 ELSE 2) * S
         /\ Choose(p[1], server_cost(p[1], StrObj(K), S, TRUE),
                   p[2], server_cost(p[2], StrObj(K), S, TRUE)) = 1
         /\ \A s \in Pool : queued_jobs[s] = 0
         /\ get_cost(1, [kind |-> K, cost |-> S]) = S
         /\ get_cost(3, [kind |-> K, cost |-> S]) = (IF K = "V" THEN 3 ELSE 2) * S
         /\ kinds[FullScan([kind |-> K, cost |-> S])[2]] = "V"
  /\ \A t \in Threads :
       ( /\ bpc[t] \in BarSelectedAt
         /\ request_type[t] \in {StrObj(K) : K \in VideoOrPriority}
         /\ request_length[t] \in Sizes
         /\ cost_1[t] = type_cost(self_servers[sampled[t][1]], request_type[t])
                          * request_length[t]
         /\ cost_2[t] = type_cost(self_servers[sampled[t][2]], request_type[t])
                          * request_length[t] )
         => server[t] = 1

Holding(s) == {t \in Threads : best_server[t] = s /\ pc[t] \in ReservedAt}

\* The payloads __send_to_servers makes a Job of.
JobPayloads == {d \in Payloads : Len(d) = 2 /\ IsDigit(d[2])}

C15_DrainedServerHasNoResidualLoad ==
  \A s \in Pool :
    (\A t \in Threads : ~(best_server[t] = s /\ pc[t] \in ReservedAt))
      => /\ queued_jobs[s] = 0
         /\ t_avail[s] <= now
         /\ get_tbusy(s) = 0
         /\ \A t \in Threads :
              j[t] # NoJob => get_cost(s, j[t]) = get_job_cost(kinds[s], j[t])

\* A request was reserved on a server with an estimate that ran past the
\* clock, has completed, and another thread's scan is reading that server.
C15_Witness ==
  \E t \in Threads, u \in Threads :
    /\ pc[t] = "done"
    /\ best_cost[t] > now
    /\ Holding(best_server[t]) = {}
    /\ pc[u] = "get_cost_locked"
    /\ s_idx[u] = best_server[t]

\* Server s's mutex is held by thread h inside one of the three locked
\* regions, entered on s.
InLockedRegion(h, s) ==
  \/ pc[h] = "get_cost_locked" /\ s_idx[h] = s
  \/ pc[h] \in {"reserve_locked", "release_locked"} /\ best_server[h] = s

\* C16: a mutex of load_balancer.py is held only by a thread inside a locked
\* region of get_cost or send_and_recv on that server, never by a thread
\* that has left the region or terminated; and a thread that waits to
\* acquire a mutex eventually acquires it.
C16_MutexNeverLeftHeld ==
  /\ [](\A s \in Pool : mutex[s] # Free => InLockedRegion(mutex[s], s))
  /\ \A t \in Threads :
       (pc[t] \in {"get_cost", "reserve", "release"})
         ~> (pc[t] \in {"get_cost_locked", "reserve_locked", "release_locked"})

\* A thread died in send_and_recv between the two locked regions, and
\* another thread has since acquired the mutex of the same server.
C16_Witness ==
  \E t \in Threads, u \in Threads :
    /\ pc[t] = "failed_reserved"
    /\ pc[u] = "get_cost_locked"
    /\ mutex[best_server[t]] = u

\* C17: a request is reserved on and sent to one server only, the one the
\* selector returned: the selection of a thread never changes, a request
\* enters the socket of its selected server only, from the send of its
\* thread, and a thread past its send, failed or not, never reserves or
\* sends again.
C17_OneBackendPerRequest ==
  [][\A t \in Threads :
       /\ server[t] # NoServer => server'[t] = server[t]
       /\ \A s \in Servers :
            bto'[s] = Append(bto[s], t) => (bpc[t] = "send" /\ server[t] = s)
       /\ bpc[t] \in {"recv", "dec_load", "dec_store", "done", "failed_reserved"}
            => bpc'[t] \in {"recv", "dec_load", "dec_store", "done", "failed_reserved"}
       /\ pc[t] \in {"log", "reserve", "reserve_locked"} \cup ReservedAt \cup {"done"}
            => best_server'[t] = best_server[t]
       /\ \A s \in Pool :
            sto'[s] = Append(sto[s], t) => (pc[t] = "send" /\ best_server[t] = s)
       /\ pc[t] \in {"recv", "release", "release_locked", "done", "failed_reserved"}
            => pc'[t] \in {"recv", "release", "release_locked", "done", "failed_reserved"}
    ]_vars

\* The send of a request failed on its server, and the other server of the
\* pool carries no reservation and was sent nothing.
C17_Witness ==
  \E t \in Threads :
    /\ bpc[t] = "failed_reserved"
    /\ ~bconn[server[t]]
    /\ \A s \in Servers \ {server[t]} :
         current_cost[s] = 0 /\ bto[s] = <<>> /\ bfrom[s] = <<>> /\ bconn[s]

\* C18: a thread of load_balancer.py holds at most one mutex, and none
\* while it is in socket send or recv; the holder of a mutex can always take
\* its next step, which releases it, so threads never deadlock on mutexes
\* and a get_cost waits only for a thread inside a locked region.
C18_OneMutexNoneAcrossIO ==
  /\ \A s1 \in Pool, s2 \in Pool :
       (mutex[s1] # Free /\ mutex[s1] = mutex[s2]) => s1 = s2
  /\ \A t \in Threads :
       pc[t] \in {"send", "recv"} => \A s \in Pool : mutex[s] # t
  /\ \A s \in Pool :
       mutex[s] # Free =>
         ENABLED (GetCostRelease(mutex[s]) \/ Reserve(mutex[s]) \/ Release(mutex[s]))
  /\ \A u \in Threads :
       pc[u] = "get_cost" =>
         \/ ENABLED GetCostAcquire(u)
         \/ pc[mutex[s_idx[u]]] \in {"get_cost_locked", "reserve_locked", "release_locked"}

\* A thread waits in recv for a backend that has not answered, and another
\* thread's get_cost holds the mutex of that same server.
C18_Witness ==
  \E t \in Threads, u \in Threads :
    /\ pc[t] = "recv"
    /\ sfrom[best_server[t]] = <<>>
    /\ sconn[best_server[t]]
    /\ pc[u] = "get_cost_locked"
    /\ mutex[best_server[t]] = u

====
